---------------------------- MODULE Spec2Model ----------------------------
(***************************************************************************)
(* Model of implementors/core/marker/trait.Freeze.js, the rustdoc          *)
(* implementor table of core::marker::Freeze for the actix crates.         *)
(*                                                                         *)
(* The file is one immediately invoked function.  Line 1 binds the local   *)
(* `implementors` to a fresh object, lines 2..8 store one list of          *)
(* implementor records under each crate key, and line 9 hands the object   *)
(* to the documentation viewer: by calling window.register_implementors    *)
(* when that property is truthy, by storing it in                          *)
(* window.pending_implementors otherwise.                                  *)
(*                                                                         *)
(* JavaScript objects are references, so the objects the script creates    *)
(* live in `heap` and values refer to them by index.  The `text` of a      *)
(* record is kept as the sequence of its words, the string split at every  *)
(* single space; two texts are equal exactly when their word sequences     *)
(* are, and the word before "for" is "Freeze" or "!Freeze".                *)
(***************************************************************************)
EXTENDS Integers, Sequences, FiniteSets, TLC

\* How many times the script is evaluated against the same window.
MaxEvals == 2

VARIABLES
  window,        \* the properties of the global object the script can reach
  heap,          \* heap[i]: the i-th object created by `{}` on line 1
  implementors,  \* the local variable of the function: a value
  pc,            \* the statement about to run, "idle" outside an evaluation
  calls,         \* the argument lists window.register_implementors was invoked with
  result,        \* how the latest evaluation ended: "none", "returned", "TypeError"
  evals          \* evaluations started so far

vars == <<window, heap, implementors, pc, calls, result, evals>>

----------------------------------------------------------------------------
\* JavaScript values, as far as line 9 tells them apart.

Undefined == [t |-> "undefined", v |-> 0]
Null      == [t |-> "null", v |-> 0]
Bool(b)   == [t |-> "boolean", v |-> b]     \* v: 0 false, 1 true
Num(n)    == [t |-> "number", v |-> n]
Str(n)    == [t |-> "string", v |-> n]      \* v: the length of the string
Function  == [t |-> "function", v |-> 0]    \* a function of the viewer
Obj(i)    == [t |-> "object", v |-> i]      \* v: index into heap, 0 for an
                                            \* object this script did not create

\* if (window.register_implementors): the truthiness of a value.
ToBoolean(x) ==
  CASE x.t = "undefined" -> FALSE
    [] x.t = "null"      -> FALSE
    [] x.t = "boolean"   -> x.v = 1
    [] x.t = "number"    -> x.v # 0
    [] x.t = "string"    -> x.v # 0
    [] OTHER             -> TRUE

\* window.register_implementors(...): only a function can be invoked,
\* calling any other value throws a TypeError.
IsCallable(x) == x.t = "function"

\* The global properties in reach of the script: the two it names, the
\* name of its local variable, and one property it never names.
Props == {"register_implementors", "pending_implementors", "implementors", "main"}

\* The values window.register_implementors may hold before an evaluation.
RegisterValues ==
  {Undefined, Null, Bool(0), Bool(1), Num(0), Num(1), Str(0), Str(1),
   Function, Obj(0)}

\* {}: an object with no property.
EmptyObject == [k \in {} |-> <<>>]

\* implementors[key] = list: the object with the property added or replaced.
PutByVal(object, key, list) == (key :> list) @@ object

\* Faulty variant of Arguments: the call passes nothing.
ArgumentsNone(m) == <<>>

\* (implementors): the argument list of the registration call.
Arguments(m) == <<m>>

----------------------------------------------------------------------------
\* The literal data of lines 2..8.  The first four definitions are faulty
\* variants of a list: a record without types, a repeated record, a record
\* with the trait negated, and records with synthetic false or types given.

implementors_actix_http_test_untyped ==
  << [text |-> <<"impl", "Freeze", "for", "TestServer">>, synthetic |-> TRUE] >>

implementors_actix_multipart_repeated ==
  << [text |-> <<"impl", "!Freeze", "for", "Field">>, synthetic |-> TRUE, types |-> <<>>],
     [text |-> <<"impl", "!Freeze", "for", "Multipart">>, synthetic |-> TRUE, types |-> <<>>],
     [text |-> <<"impl", "!Freeze", "for", "Field">>, synthetic |-> TRUE, types |-> <<>>] >>

implementors_actix_files_negated ==
  << [text |-> <<"impl", "Freeze", "for", "Directory">>, synthetic |-> TRUE, types |-> <<>>],
     [text |-> <<"impl", "!Freeze", "for", "Files">>, synthetic |-> TRUE, types |-> <<>>],
     [text |-> <<"impl", "Freeze", "for", "NamedFile">>, synthetic |-> TRUE, types |-> <<>>],
     [text |-> <<"impl", "Freeze", "for", "HttpRange">>, synthetic |-> TRUE, types |-> <<>>],
     [text |-> <<"impl", "Freeze", "for", "FilesService">>, synthetic |-> TRUE, types |-> <<>>] >>

implementors_actix_web_actors_typed ==
  << [text |-> <<"impl&lt;A&gt;", "Freeze", "for", "HttpContext&lt;A&gt;">>, synthetic |-> TRUE, types |-> <<"A">>],
     [text |-> <<"impl&lt;A&gt;", "Freeze", "for", "WebsocketContext&lt;A&gt;">>, synthetic |-> FALSE, types |-> <<>>] >>

\* Line 2: implementors["actix_files"] = [ ... ];  (5 records)
implementors_actix_files ==
  << [text |-> <<"impl", "Freeze", "for", "Directory">>, synthetic |-> TRUE, types |-> <<>>],
     [text |-> <<"impl", "Freeze", "for", "Files">>, synthetic |-> TRUE, types |-> <<>>],
     [text |-> <<"impl", "Freeze", "for", "NamedFile">>, synthetic |-> TRUE, types |-> <<>>],
     [text |-> <<"impl", "Freeze", "for", "HttpRange">>, synthetic |-> TRUE, types |-> <<>>],
     [text |-> <<"impl", "Freeze", "for", "FilesService">>, synthetic |-> TRUE, types |-> <<>>] >>

\* Line 3: implementors["actix_http"] = [ ... ];  (89 records)
implementors_actix_http ==
  << [text |-> <<"impl&lt;T,", "S,", "X,", "U&gt;", "Freeze", "for", "HttpServiceBuilder&lt;T,", "S,", "X,", "U&gt;", "<span", "class=\"where", "fmt-newline\">where<br>&nbsp;&nbsp;&nbsp;&nbsp;U:", "Freeze,<br>&nbsp;&nbsp;&nbsp;&nbsp;X:", "Freeze,&nbsp;</span>">>, synthetic |-> TRUE, types |-> <<>>],
     [text |-> <<"impl", "Freeze", "for", "ServiceConfig">>, synthetic |-> TRUE, types |-> <<>>],
     [text |-> <<"impl", "Freeze", "for", "Extensions">>, synthetic |-> TRUE, types |-> <<>>],
     [text |-> <<"impl&lt;T&gt;", "Freeze", "for", "Message&lt;T&gt;">>, synthetic |-> TRUE, types |-> <<>>],
     [text |-> <<"impl", "!Freeze", "for", "RequestHead">>, synthetic |-> TRUE, types |-> <<>>],
     [text |-> <<"impl", "!Freeze", "for", "ResponseHead">>, synthetic |-> TRUE, types |-> <<>>],
     [text |-> <<"impl&lt;P&gt;", "Freeze", "for", "Request&lt;P&gt;", "<span", "class=\"where", "fmt-newline\">where<br>&nbsp;&nbsp;&nbsp;&nbsp;P:", "Freeze,&nbsp;</span>">>, synthetic |-> TRUE, types |-> <<>>],
     [text |-> <<"impl&lt;B&nbsp;=&nbsp;Body&gt;", "!Freeze", "for", "Response&lt;B&gt;">>, synthetic |-> TRUE, types |-> <<>>],
     [text |-> <<"impl", "Freeze", "for", "ResponseBuilder">>, synthetic |-> TRUE, types |-> <<>>],
     [text |-> <<"impl&lt;T,", "S,", "B,", "X,", "U&gt;", "Freeze", "for", "HttpService&lt;T,", "S,", "B,", "X,", "U&gt;", "<span", "class=\"where", "fmt-newline\">where<br>&nbsp;&nbsp;&nbsp;&nbsp;S:", "Freeze,<br>&nbsp;&nbsp;&nbsp;&nbsp;U:", "Freeze,<br>&nbsp;&nbsp;&nbsp;&nbsp;X:", "Freeze,&nbsp;</span>">>, synthetic |-> TRUE, types |-> <<>>],
     [text |-> <<"impl", "Freeze", "for", "KeepAlive">>, synthetic |-> TRUE, types |-> <<>>],
     [text |-> <<"impl", "!Freeze", "for", "RequestHeadType">>, synthetic |-> TRUE, types |-> <<>>],
     [text |-> <<"impl&lt;S&gt;", "Freeze", "for", "Payload&lt;S&gt;", "<span", "class=\"where", "fmt-newline\">where<br>&nbsp;&nbsp;&nbsp;&nbsp;S:", "Freeze,&nbsp;</span>">>, synthetic |-> TRUE, types |-> <<>>],
     [text |-> <<"impl", "Freeze", "for", "Protocol">>, synthetic |-> TRUE, types |-> <<>>],
     [text |-> <<"impl&lt;S,", "E&gt;", "Freeze", "for", "BodyStream&lt;S,", "E&gt;", "<span", "class=\"where", "fmt-newline\">where<br>&nbsp;&nbsp;&nbsp;&nbsp;S:", "Freeze,&nbsp;</span>">>, synthetic |-> TRUE, types |-> <<>>],
     [text |-> <<"impl&lt;S&gt;", "Freeze", "for", "SizedStream&lt;S&gt;", "<span", "class=\"where", "fmt-newline\">where<br>&nbsp;&nbsp;&nbsp;&nbsp;S:", "Freeze,&nbsp;</span>">>, synthetic |-> TRUE, types |-> <<>>],
     [text |-> <<"impl", "Freeze", "for", "BodySize">>, synthetic |-> TRUE, types |-> <<>>],
     [text |-> <<"impl&lt;B&gt;", "!Freeze", "for", "ResponseBody&lt;B&gt;">>, synthetic |-> TRUE, types |-> <<>>],
     [text |-> <<"impl", "!Freeze", "for", "Body">>, synthetic |-> TRUE, types |-> <<>>],
     [text |-> <<"impl&lt;T,", "U&gt;", "Freeze", "for", "Connector&lt;T,", "U&gt;", "<span", "class=\"where", "fmt-newline\">where<br>&nbsp;&nbsp;&nbsp;&nbsp;T:", "Freeze,&nbsp;</span>">>, synthetic |-> TRUE, types |-> <<>>],
     [text |-> <<"impl", "!Freeze", "for", "Connect">>, synthetic |-> TRUE, types |-> <<>>],
     [text |-> <<"impl", "Freeze", "for", "ConnectError">>, synthetic |-> TRUE, types |-> <<>>],
     [text |-> <<"impl", "Freeze", "for", "FreezeRequestError">>, synthetic |-> TRUE, types |-> <<>>],
     [text |-> <<"impl", "Freeze", "for", "InvalidUrl">>, synthetic |-> TRUE, types |-> <<>>],
     [text |-> <<"impl", "Freeze", "for", "SendRequestError">>, synthetic |-> TRUE, types |-> <<>>],
     [text |-> <<"impl", "Freeze", "for", "Protocol">>, synthetic |-> TRUE, types |-> <<>>],
     [text |-> <<"impl&lt;S&gt;", "Freeze", "for", "Decoder&lt;S&gt;", "<span", "class=\"where", "fmt-newline\">where<br>&nbsp;&nbsp;&nbsp;&nbsp;S:", "Freeze,&nbsp;</span>">>, synthetic |-> TRUE, types |-> <<>>],
     [text |-> <<"impl&lt;B&gt;", "!Freeze", "for", "Encoder&lt;B&gt;">>, synthetic |-> TRUE, types |-> <<>>],
     [text |-> <<"impl", "Freeze", "for", "ExtendedValue">>, synthetic |-> TRUE, types |-> <<>>],
     [text |-> <<"impl", "Freeze", "for", "ContentEncoding">>, synthetic |-> TRUE, types |-> <<>>],
     [text |-> <<"impl", "Freeze", "for", "AcceptCharset">>, synthetic |-> TRUE, types |-> <<>>],
     [text |-> <<"impl", "Freeze", "for", "Accept">>, synthetic |-> TRUE, types |-> <<>>],
     [text |-> <<"impl", "Freeze", "for", "AcceptLanguage">>, synthetic |-> TRUE, types |-> <<>>],
     [text |-> <<"impl", "Freeze", "for", "Allow">>, synthetic |-> TRUE, types |-> <<>>],
     [text |-> <<"impl", "Freeze", "for", "CacheControl">>, synthetic |-> TRUE, types |-> <<>>],
     [text |-> <<"impl", "Freeze", "for", "CacheDirective">>, synthetic |-> TRUE, types |-> <<>>],
     [text |-> <<"impl", "Freeze", "for", "ContentDisposition">>, synthetic |-> TRUE, types |-> <<>>],
     [text |-> <<"impl", "Freeze", "for", "DispositionType">>, synthetic |-> TRUE, types |-> <<>>],
     [text |-> <<"impl", "Freeze", "for", "DispositionParam">>, synthetic |-> TRUE, types |-> <<>>],
     [text |-> <<"impl", "Freeze", "for", "ContentLanguage">>, synthetic |-> TRUE, types |-> <<>>],
     [text |-> <<"impl", "Freeze", "for", "ContentRange">>, synthetic |-> TRUE, types |-> <<>>],
     [text |-> <<"impl", "Freeze", "for", "ContentRangeSpec">>, synthetic |-> TRUE, types |-> <<>>],
     [text |-> <<"impl", "Freeze", "for", "ContentType">>, synthetic |-> TRUE, types |-> <<>>],
     [text |-> <<"impl", "Freeze", "for", "Date">>, synthetic |-> TRUE, types |-> <<>>],
     [text |-> <<"impl", "Freeze", "for", "ETag">>, synthetic |-> TRUE, types |-> <<>>],
     [text |-> <<"impl", "Freeze", "for", "Expires">>, synthetic |-> TRUE, types |-> <<>>],
     [text |-> <<"impl", "Freeze", "for", "IfMatch">>, synthetic |-> TRUE, types |-> <<>>],
     [text |-> <<"impl", "Freeze", "for", "IfModifiedSince">>, synthetic |-> TRUE, types |-> <<>>],
     [text |-> <<"impl", "Freeze", "for", "IfNoneMatch">>, synthetic |-> TRUE, types |-> <<>>],
     [text |-> <<"impl", "Freeze", "for", "IfRange">>, synthetic |-> TRUE, types |-> <<>>],
     [text |-> <<"impl", "Freeze", "for", "IfUnmodifiedSince">>, synthetic |-> TRUE, types |-> <<>>],
     [text |-> <<"impl", "Freeze", "for", "LastModified">>, synthetic |-> TRUE, types |-> <<>>],
     [text |-> <<"impl", "Freeze", "for", "HeaderMap">>, synthetic |-> TRUE, types |-> <<>>],
     [text |-> <<"impl", "Freeze", "for", "ConnectionType">>, synthetic |-> TRUE, types |-> <<>>],
     [text |-> <<"impl", "Freeze", "for", "Error">>, synthetic |-> TRUE, types |-> <<>>],
     [text |-> <<"impl&lt;T&gt;", "!Freeze", "for", "InternalError&lt;T&gt;">>, synthetic |-> TRUE, types |-> <<>>],
     [text |-> <<"impl", "Freeze", "for", "ParseError">>, synthetic |-> TRUE, types |-> <<>>],
     [text |-> <<"impl", "Freeze", "for", "PayloadError">>, synthetic |-> TRUE, types |-> <<>>],
     [text |-> <<"impl", "Freeze", "for", "DispatchError">>, synthetic |-> TRUE, types |-> <<>>],
     [text |-> <<"impl", "Freeze", "for", "ContentTypeError">>, synthetic |-> TRUE, types |-> <<>>],
     [text |-> <<"impl", "Freeze", "for", "ClientCodec">>, synthetic |-> TRUE, types |-> <<>>],
     [text |-> <<"impl", "Freeze", "for", "ClientPayloadCodec">>, synthetic |-> TRUE, types |-> <<>>],
     [text |-> <<"impl", "Freeze", "for", "Codec">>, synthetic |-> TRUE, types |-> <<>>],
     [text |-> <<"impl&lt;T,", "S,", "B,", "X,", "U&gt;", "!Freeze", "for", "Dispatcher&lt;T,", "S,", "B,", "X,", "U&gt;">>, synthetic |-> TRUE, types |-> <<>>],
     [text |-> <<"impl", "Freeze", "for", "ExpectHandler">>, synthetic |-> TRUE, types |-> <<>>],
     [text |-> <<"impl", "Freeze", "for", "Payload">>, synthetic |-> TRUE, types |-> <<>>],
     [text |-> <<"impl&lt;T,", "S,", "B,", "X,", "U&gt;", "Freeze", "for", "H1Service&lt;T,", "S,", "B,", "X,", "U&gt;", "<span", "class=\"where", "fmt-newline\">where<br>&nbsp;&nbsp;&nbsp;&nbsp;S:", "Freeze,<br>&nbsp;&nbsp;&nbsp;&nbsp;U:", "Freeze,<br>&nbsp;&nbsp;&nbsp;&nbsp;X:", "Freeze,&nbsp;</span>">>, synthetic |-> TRUE, types |-> <<>>],
     [text |-> <<"impl&lt;T,", "S,", "B,", "X,", "U&gt;", "Freeze", "for", "H1ServiceHandler&lt;T,", "S,", "B,", "X,", "U&gt;">>, synthetic |-> TRUE, types |-> <<>>],
     [text |-> <<"impl&lt;T&gt;", "Freeze", "for", "OneRequest&lt;T&gt;">>, synthetic |-> TRUE, types |-> <<>>],
     [text |-> <<"impl&lt;T&gt;", "Freeze", "for", "UpgradeHandler&lt;T&gt;">>, synthetic |-> TRUE, types |-> <<>>],
     [text |-> <<"impl&lt;T,", "B&gt;", "!Freeze", "for", "SendResponse&lt;T,", "B&gt;">>, synthetic |-> TRUE, types |-> <<>>],
     [text |-> <<"impl&lt;T&gt;", "!Freeze", "for", "Message&lt;T&gt;">>, synthetic |-> TRUE, types |-> <<>>],
     [text |-> <<"impl", "Freeze", "for", "MessageType">>, synthetic |-> TRUE, types |-> <<>>],
     [text |-> <<"impl&lt;T,", "S,", "B&gt;", "!Freeze", "for", "Dispatcher&lt;T,", "S,", "B&gt;">>, synthetic |-> TRUE, types |-> <<>>],
     [text |-> <<"impl&lt;T,", "S,", "B&gt;", "Freeze", "for", "H2Service&lt;T,", "S,", "B&gt;", "<span", "class=\"where", "fmt-newline\">where<br>&nbsp;&nbsp;&nbsp;&nbsp;S:", "Freeze,&nbsp;</span>">>, synthetic |-> TRUE, types |-> <<>>],
     [text |-> <<"impl", "Freeze", "for", "Payload">>, synthetic |-> TRUE, types |-> <<>>],
     [text |-> <<"impl", "!Freeze", "for", "TestRequest">>, synthetic |-> TRUE, types |-> <<>>],
     [text |-> <<"impl", "Freeze", "for", "TestBuffer">>, synthetic |-> TRUE, types |-> <<>>],
     [text |-> <<"impl", "Freeze", "for", "Codec">>, synthetic |-> TRUE, types |-> <<>>],
     [text |-> <<"impl&lt;S,", "T&gt;", "Freeze", "for", "Dispatcher&lt;S,", "T&gt;", "<span", "class=\"where", "fmt-newline\">where<br>&nbsp;&nbsp;&nbsp;&nbsp;S:", "Freeze,<br>&nbsp;&nbsp;&nbsp;&nbsp;T:", "Freeze,<br>&nbsp;&nbsp;&nbsp;&nbsp;&lt;S", "as", "Service&gt;::Error:", "Freeze,&nbsp;</span>">>, synthetic |-> TRUE, types |-> <<>>],
     [text |-> <<"impl", "Freeze", "for", "Parser">>, synthetic |-> TRUE, types |-> <<>>],
     [text |-> <<"impl", "Freeze", "for", "CloseReason">>, synthetic |-> TRUE, types |-> <<>>],
     [text |-> <<"impl", "!Freeze", "for", "Frame">>, synthetic |-> TRUE, types |-> <<>>],
     [text |-> <<"impl", "!Freeze", "for", "Item">>, synthetic |-> TRUE, types |-> <<>>],
     [text |-> <<"impl", "!Freeze", "for", "Message">>, synthetic |-> TRUE, types |-> <<>>],
     [text |-> <<"impl", "Freeze", "for", "CloseCode">>, synthetic |-> TRUE, types |-> <<>>],
     [text |-> <<"impl", "Freeze", "for", "OpCode">>, synthetic |-> TRUE, types |-> <<>>],
     [text |-> <<"impl", "Freeze", "for", "ProtocolError">>, synthetic |-> TRUE, types |-> <<>>],
     [text |-> <<"impl", "Freeze", "for", "HandshakeError">>, synthetic |-> TRUE, types |-> <<>>] >>

\* Line 4: implementors["actix_http_test"] = [ ... ];  (1 records)
implementors_actix_http_test ==
  << [text |-> <<"impl", "Freeze", "for", "TestServer">>, synthetic |-> TRUE, types |-> <<>>] >>

\* Line 5: implementors["actix_multipart"] = [ ... ];  (3 records)
implementors_actix_multipart ==
  << [text |-> <<"impl", "!Freeze", "for", "Field">>, synthetic |-> TRUE, types |-> <<>>],
     [text |-> <<"impl", "!Freeze", "for", "Multipart">>, synthetic |-> TRUE, types |-> <<>>],
     [text |-> <<"impl", "Freeze", "for", "MultipartError">>, synthetic |-> TRUE, types |-> <<>>] >>

\* Line 6: implementors["actix_web"] = [ ... ];  (49 records)
implementors_actix_web ==
  << [text |-> <<"impl&lt;T,", "B&gt;", "Freeze", "for", "App&lt;T,", "B&gt;", "<span", "class=\"where", "fmt-newline\">where<br>&nbsp;&nbsp;&nbsp;&nbsp;T:", "Freeze,&nbsp;</span>">>, synthetic |-> TRUE, types |-> <<>>],
     [text |-> <<"impl", "Freeze", "for", "HttpRequest">>, synthetic |-> TRUE, types |-> <<>>],
     [text |-> <<"impl&lt;T&gt;", "Freeze", "for", "Resource&lt;T&gt;", "<span", "class=\"where", "fmt-newline\">where<br>&nbsp;&nbsp;&nbsp;&nbsp;T:", "Freeze,&nbsp;</span>">>, synthetic |-> TRUE, types |-> <<>>],
     [text |-> <<"impl", "Freeze", "for", "Route">>, synthetic |-> TRUE, types |-> <<>>],
     [text |-> <<"impl&lt;T&gt;", "Freeze", "for", "Scope&lt;T&gt;", "<span", "class=\"where", "fmt-newline\">where<br>&nbsp;&nbsp;&nbsp;&nbsp;T:", "Freeze,&nbsp;</span>">>, synthetic |-> TRUE, types |-> <<>>],
     [text |-> <<"impl&lt;F,", "I,", "S,", "B&gt;", "!Freeze", "for", "HttpServer&lt;F,", "I,", "S,", "B&gt;">>, synthetic |-> TRUE, types |-> <<>>],
     [text |-> <<"impl&lt;A,", "B&gt;", "Freeze", "for", "Either&lt;A,", "B&gt;", "<span", "class=\"where", "fmt-newline\">where<br>&nbsp;&nbsp;&nbsp;&nbsp;A:", "Freeze,<br>&nbsp;&nbsp;&nbsp;&nbsp;B:", "Freeze,&nbsp;</span>">>, synthetic |-> TRUE, types |-> <<>>],
     [text |-> <<"impl", "Freeze", "for", "AppService">>, synthetic |-> TRUE, types |-> <<>>],
     [text |-> <<"impl", "Freeze", "for", "AppConfig">>, synthetic |-> TRUE, types |-> <<>>],
     [text |-> <<"impl", "Freeze", "for", "ServiceConfig">>, synthetic |-> TRUE, types |-> <<>>],
     [text |-> <<"impl&lt;T:&nbsp;?Sized&gt;", "Freeze", "for", "Data&lt;T&gt;">>, synthetic |-> TRUE, types |-> <<>>],
     [text |-> <<"impl", "Freeze", "for", "UrlGenerationError">>, synthetic |-> TRUE, types |-> <<>>],
     [text |-> <<"impl", "Freeze", "for", "UrlencodedError">>, synthetic |-> TRUE, types |-> <<>>],
     [text |-> <<"impl", "Freeze", "for", "JsonPayloadError">>, synthetic |-> TRUE, types |-> <<>>],
     [text |-> <<"impl", "Freeze", "for", "PathError">>, synthetic |-> TRUE, types |-> <<>>],
     [text |-> <<"impl", "Freeze", "for", "QueryPayloadError">>, synthetic |-> TRUE, types |-> <<>>],
     [text |-> <<"impl", "Freeze", "for", "ReadlinesError">>, synthetic |-> TRUE, types |-> <<>>],
     [text |-> <<"impl", "Freeze", "for", "AnyGuard">>, synthetic |-> TRUE, types |-> <<>>],
     [text |-> <<"impl", "Freeze", "for", "AllGuard">>, synthetic |-> TRUE, types |-> <<>>],
     [text |-> <<"impl", "Freeze", "for", "ConnectionInfo">>, synthetic |-> TRUE, types |-> <<>>],
     [text |-> <<"impl", "Freeze", "for", "Compress">>, synthetic |-> TRUE, types |-> <<>>],
     [text |-> <<"impl&lt;T&gt;", "Freeze", "for", "Condition&lt;T&gt;", "<span", "class=\"where", "fmt-newline\">where<br>&nbsp;&nbsp;&nbsp;&nbsp;T:", "Freeze,&nbsp;</span>">>, synthetic |-> TRUE, types |-> <<>>],
     [text |-> <<"impl", "Freeze", "for", "DefaultHeaders">>, synthetic |-> TRUE, types |-> <<>>],
     [text |-> <<"impl", "Freeze", "for", "Logger">>, synthetic |-> TRUE, types |-> <<>>],
     [text |-> <<"impl&lt;B&gt;", "Freeze", "for", "ErrorHandlers&lt;B&gt;">>, synthetic |-> TRUE, types |-> <<>>],
     [text |-> <<"impl&lt;B&gt;", "!Freeze", "for", "ErrorHandlerResponse&lt;B&gt;">>, synthetic |-> TRUE, types |-> <<>>],
     [text |-> <<"impl", "Freeze", "for", "NormalizePath">>, synthetic |-> TRUE, types |-> <<>>],
     [text |-> <<"impl", "Freeze", "for", "TrailingSlash">>, synthetic |-> TRUE, types |-> <<>>],
     [text |-> <<"impl&lt;T&gt;", "Freeze", "for", "ReqData&lt;T&gt;", "<span", "class=\"where", "fmt-newline\">where<br>&nbsp;&nbsp;&nbsp;&nbsp;T:", "Freeze,&nbsp;</span>">>, synthetic |-> TRUE, types |-> <<>>],
     [text |-> <<"impl", "!Freeze", "for", "ResourceMap">>, synthetic |-> TRUE, types |-> <<>>],
     [text |-> <<"impl", "Freeze", "for", "ServiceRequest">>, synthetic |-> TRUE, types |-> <<>>],
     [text |-> <<"impl&lt;B&nbsp;=&nbsp;Body&gt;", "!Freeze", "for", "ServiceResponse&lt;B&gt;">>, synthetic |-> TRUE, types |-> <<>>],
     [text |-> <<"impl", "Freeze", "for", "WebService">>, synthetic |-> TRUE, types |-> <<>>],
     [text |-> <<"impl", "!Freeze", "for", "TestRequest">>, synthetic |-> TRUE, types |-> <<>>],
     [text |-> <<"impl", "Freeze", "for", "TestServerConfig">>, synthetic |-> TRUE, types |-> <<>>],
     [text |-> <<"impl", "Freeze", "for", "TestServer">>, synthetic |-> TRUE, types |-> <<>>],
     [text |-> <<"impl&lt;T&gt;", "Freeze", "for", "Form&lt;T&gt;", "<span", "class=\"where", "fmt-newline\">where<br>&nbsp;&nbsp;&nbsp;&nbsp;T:", "Freeze,&nbsp;</span>">>, synthetic |-> TRUE, types |-> <<>>],
     [text |-> <<"impl", "Freeze", "for", "FormConfig">>, synthetic |-> TRUE, types |-> <<>>],
     [text |-> <<"impl&lt;U&gt;", "Freeze", "for", "UrlEncoded&lt;U&gt;">>, synthetic |-> TRUE, types |-> <<>>],
     [text |-> <<"impl&lt;T&gt;", "Freeze", "for", "Json&lt;T&gt;", "<span", "class=\"where", "fmt-newline\">where<br>&nbsp;&nbsp;&nbsp;&nbsp;T:", "Freeze,&nbsp;</span>">>, synthetic |-> TRUE, types |-> <<>>],
     [text |-> <<"impl", "Freeze", "for", "JsonConfig">>, synthetic |-> TRUE, types |-> <<>>],
     [text |-> <<"impl&lt;U&gt;", "Freeze", "for", "JsonBody&lt;U&gt;">>, synthetic |-> TRUE, types |-> <<>>],
     [text |-> <<"impl&lt;T&gt;", "Freeze", "for", "Path&lt;T&gt;", "<span", "class=\"where", "fmt-newline\">where<br>&nbsp;&nbsp;&nbsp;&nbsp;T:", "Freeze,&nbsp;</span>">>, synthetic |-> TRUE, types |-> <<>>],
     [text |-> <<"impl", "Freeze", "for", "PathConfig">>, synthetic |-> TRUE, types |-> <<>>],
     [text |-> <<"impl", "Freeze", "for", "Payload">>, synthetic |-> TRUE, types |-> <<>>],
     [text |-> <<"impl", "Freeze", "for", "PayloadConfig">>, synthetic |-> TRUE, types |-> <<>>],
     [text |-> <<"impl&lt;T&gt;", "Freeze", "for", "Query&lt;T&gt;", "<span", "class=\"where", "fmt-newline\">where<br>&nbsp;&nbsp;&nbsp;&nbsp;T:", "Freeze,&nbsp;</span>">>, synthetic |-> TRUE, types |-> <<>>],
     [text |-> <<"impl", "Freeze", "for", "QueryConfig">>, synthetic |-> TRUE, types |-> <<>>],
     [text |-> <<"impl&lt;T&gt;", "Freeze", "for", "Readlines&lt;T&gt;", "<span", "class=\"where", "fmt-newline\">where<br>&nbsp;&nbsp;&nbsp;&nbsp;&lt;T", "as", "HttpMessage&gt;::Stream:", "Freeze,&nbsp;</span>">>, synthetic |-> TRUE, types |-> <<>>] >>

\* Line 7: implementors["actix_web_actors"] = [ ... ];  (2 records)
implementors_actix_web_actors ==
  << [text |-> <<"impl&lt;A&gt;", "Freeze", "for", "HttpContext&lt;A&gt;">>, synthetic |-> TRUE, types |-> <<>>],
     [text |-> <<"impl&lt;A&gt;", "Freeze", "for", "WebsocketContext&lt;A&gt;">>, synthetic |-> TRUE, types |-> <<>>] >>

\* Line 8: implementors["awc"] = [ ... ];  (14 records)
implementors_awc ==
  << [text |-> <<"impl", "!Freeze", "for", "ClientBuilder">>, synthetic |-> TRUE, types |-> <<>>],
     [text |-> <<"impl", "Freeze", "for", "BoxedSocket">>, synthetic |-> TRUE, types |-> <<>>],
     [text |-> <<"impl", "Freeze", "for", "FrozenClientRequest">>, synthetic |-> TRUE, types |-> <<>>],
     [text |-> <<"impl", "Freeze", "for", "FrozenSendBuilder">>, synthetic |-> TRUE, types |-> <<>>],
     [text |-> <<"impl", "!Freeze", "for", "ClientRequest">>, synthetic |-> TRUE, types |-> <<>>],
     [text |-> <<"impl&lt;S&nbsp;=&nbsp;Pin&lt;Box&lt;dyn", "Stream&lt;Item", "=", "Result&lt;Bytes,", "PayloadError&gt;&gt;", "+", "'static,", "Global&gt;&gt;&gt;", "!Freeze", "for", "ClientResponse&lt;S&gt;">>, synthetic |-> TRUE, types |-> <<>>],
     [text |-> <<"impl&lt;S,", "U&gt;", "Freeze", "for", "JsonBody&lt;S,", "U&gt;", "<span", "class=\"where", "fmt-newline\">where<br>&nbsp;&nbsp;&nbsp;&nbsp;S:", "Freeze,&nbsp;</span>">>, synthetic |-> TRUE, types |-> <<>>],
     [text |-> <<"impl&lt;S&gt;", "Freeze", "for", "MessageBody&lt;S&gt;", "<span", "class=\"where", "fmt-newline\">where<br>&nbsp;&nbsp;&nbsp;&nbsp;S:", "Freeze,&nbsp;</span>">>, synthetic |-> TRUE, types |-> <<>>],
     [text |-> <<"impl", "Freeze", "for", "Client">>, synthetic |-> TRUE, types |-> <<>>],
     [text |-> <<"impl", "Freeze", "for", "SendClientRequest">>, synthetic |-> TRUE, types |-> <<>>],
     [text |-> <<"impl", "!Freeze", "for", "WsClientError">>, synthetic |-> TRUE, types |-> <<>>],
     [text |-> <<"impl", "Freeze", "for", "JsonPayloadError">>, synthetic |-> TRUE, types |-> <<>>],
     [text |-> <<"impl", "!Freeze", "for", "TestResponse">>, synthetic |-> TRUE, types |-> <<>>],
     [text |-> <<"impl", "!Freeze", "for", "WebsocketsRequest">>, synthetic |-> TRUE, types |-> <<>>] >>
----------------------------------------------------------------------------
\* The evaluation of the script, statement by statement.

TypeOK ==
  /\ window \in [Props -> RegisterValues \cup {Obj(i) : i \in 0..MaxEvals}]
  /\ Len(heap) = evals
  /\ pc \in {"idle", "L2", "L3", "L4", "L5", "L6", "L7", "L8", "L9"}
  /\ result \in {"none", "returned", "TypeError"}
  /\ evals \in 0..MaxEvals

\* The window before the first evaluation: register_implementors holds any
\* kind of value, the other properties are absent or hold a foreign object.
Init ==
  /\ window \in [Props -> RegisterValues]
  /\ window["pending_implementors"] \in {Undefined, Obj(0)}
  /\ window["implementors"] \in {Undefined, Obj(0)}
  /\ window["main"] = Function
  /\ heap = <<>>
  /\ implementors = Undefined
  /\ pc = "idle"
  /\ calls = <<>>
  /\ result = "none"
  /\ evals = 0

\* Faulty variant of Line1: the table is one shared object, emptied and refilled
\* by every evaluation, instead of a fresh object per evaluation.
Line1Shared ==
  /\ pc = "idle"
  /\ evals < MaxEvals
  /\ heap' = IF evals = 0 THEN <<EmptyObject>> ELSE Append([heap EXCEPT ![1] = EmptyObject], EmptyObject)
  /\ implementors' = Obj(1)
  /\ pc' = "L2"
  /\ result' = "none"
  /\ evals' = evals + 1
  /\ UNCHANGED <<window, calls>>

\* Faulty variant of Line1: `var` is missing, the assignment creates a global.
Line1Global ==
  /\ pc = "idle"
  /\ evals < MaxEvals
  /\ heap' = Append(heap, EmptyObject)
  /\ implementors' = Obj(Len(heap) + 1)
  /\ window' = [window EXCEPT !["implementors"] = Obj(Len(heap) + 1)]
  /\ pc' = "L2"
  /\ result' = "none"
  /\ evals' = evals + 1
  /\ UNCHANGED calls

\* Line 1: (function() {var implementors = {};
Line1 ==
  /\ pc = "idle"
  /\ evals < MaxEvals
  /\ heap' = Append(heap, EmptyObject)
  /\ implementors' = Obj(Len(heap) + 1)
  /\ pc' = "L2"
  /\ result' = "none"
  /\ evals' = evals + 1
  /\ UNCHANGED <<window, calls>>

\* implementors[key] = list; at statement `at`, continuing at `to`.
Assign(at, key, list, to) ==
  /\ pc = at
  /\ heap' = [heap EXCEPT ![implementors.v] = PutByVal(@, key, list)]
  /\ pc' = to
  /\ UNCHANGED <<window, implementors, calls, result, evals>>

Line2 == Assign("L2", "actix_files", implementors_actix_files, "L3")
Line3 == Assign("L3", "actix_http", implementors_actix_http, "L4")
Line4 == Assign("L4", "actix_http_test", implementors_actix_http_test, "L5")
Line5 == Assign("L5", "actix_multipart", implementors_actix_multipart, "L6")
Line6 == Assign("L6", "actix_web", implementors_actix_web, "L7")
Line7 == Assign("L7", "actix_web_actors", implementors_actix_web_actors, "L8")

\* Faulty variant of Line8: the last assignment is lost.
Line8Skipped ==
  /\ pc = "L8"
  /\ pc' = "L9"
  /\ UNCHANGED <<window, heap, implementors, calls, result, evals>>

Line8 == Assign("L8", "awc", implementors_awc, "L9")

\* Line 9, then-branch with a function:
\*   if (window.register_implementors) {window.register_implementors(implementors);}
\* The viewer's function is not part of this file: the model records the
\* invocation and its arguments.
Line9Call ==
  /\ pc = "L9"
  /\ ToBoolean(window["register_implementors"])
  /\ IsCallable(window["register_implementors"])
  /\ calls' = Append(calls, Arguments(implementors))
  /\ implementors' = Undefined
  /\ pc' = "idle"
  /\ result' = "returned"
  /\ UNCHANGED <<window, heap, evals>>

\* Line 9, then-branch with a truthy value that is no function: the call
\* expression throws a TypeError, which ends the evaluation.
Line9Throw ==
  /\ pc = "L9"
  /\ ToBoolean(window["register_implementors"])
  /\ ~IsCallable(window["register_implementors"])
  /\ implementors' = Undefined
  /\ pc' = "idle"
  /\ result' = "TypeError"
  /\ UNCHANGED <<window, heap, calls, evals>>

\* Line 9, else-branch: else {window.pending_implementors = implementors;}
Line9Pending ==
  /\ pc = "L9"
  /\ ~ToBoolean(window["register_implementors"])
  /\ window' = [window EXCEPT !["pending_implementors"] = implementors]
  /\ implementors' = Undefined
  /\ pc' = "idle"
  /\ result' = "returned"
  /\ UNCHANGED <<heap, calls, evals>>

Next ==
  \/ Line1
  \/ Line2
  \/ Line3
  \/ Line4
  \/ Line5
  \/ Line6
  \/ Line7
  \/ Line8
  \/ Line9Call
  \/ Line9Throw
  \/ Line9Pending

Spec == Init /\ [][Next]_vars

----------------------------------------------------------------------------
\* Vocabulary of the properties.

CrateKeys ==
  {"actix_files", "actix_http", "actix_http_test", "actix_multipart",
   "actix_web", "actix_web_actors", "awc"}

\* Evaluations that have run to their end.
Finished == IF pc = "idle" THEN evals ELSE evals - 1

\* The objects of this script the viewer holds: those passed in a call and
\* the one window.pending_implementors refers to.
Passed == UNION {{calls[i][j].v : j \in DOMAIN calls[i]} : i \in DOMAIN calls}
Stored ==
  IF window["pending_implementors"].t = "object" /\ window["pending_implementors"].v > 0
    THEN {window["pending_implementors"].v}
    ELSE {}
HandedOff == Passed \cup Stored

\* The words of a record's text that state the trait, and whether the
\* record states that the type does not implement it.
TraitWords(r) == {i \in DOMAIN r.text : r.text[i] \in {"Freeze", "!Freeze"}}
Negative(r) == \E i \in DOMAIN r.text : r.text[i] = "!Freeze"
Negatives(list) == Cardinality({i \in DOMAIN list : Negative(list[i])})

\* How many records of a list carry the text t.
Occurrences(list, t) == Cardinality({i \in DOMAIN list : list[i].text = t})

\* The signatures that actix_http lists for two types of the same name.
Homonyms ==
  {<<"impl", "Freeze", "for", "Protocol">>,
   <<"impl", "Freeze", "for", "Codec">>,
   <<"impl", "Freeze", "for", "Payload">>}

----------------------------------------------------------------------------
\* C1, as stated: every evaluation invokes window.register_implementors
\* exactly once, whatever the window held before.  It is stated here of the
\* evaluations that return normally, so that the TypeError of C7 plays no
\* part: it is refuted by an evaluation with the property absent or falsy,
\* which stores the mapping and calls nothing.
C1_Original_OneCallPerEvaluation ==
  result = "returned" => Len(calls) = Finished

\* C1, amended: window.register_implementors is invoked at most once per
\* evaluation; exactly once, with the mapping that evaluation built as the
\* only argument, when it is a function, and never when it is not one.
C1_OneCallWhenFunction ==
  IF IsCallable(window["register_implementors"])
    THEN /\ Len(calls) = Finished
         /\ \A i \in DOMAIN calls : calls[i] = <<Obj(i)>>
    ELSE calls = <<>>

C1_Witness ==
  /\ pc = "idle"
  /\ evals = 2
  /\ calls = <<(<<Obj(1)>>), (<<Obj(2)>>)>>

\* C2: every key of a mapping handed to the viewer is a non-empty string and
\* every value a sequence of records with exactly the fields text (a
\* string, here its words), synthetic (a boolean) and types (a list).
C2_MappingShape ==
  \A id \in HandedOff :
    \A k \in DOMAIN heap[id] :
      /\ k \in STRING
      /\ k # ""
      /\ DOMAIN heap[id][k] = 1..Len(heap[id][k])
      /\ \A i \in DOMAIN heap[id][k] :
           LET r == heap[id][k][i] IN
             /\ DOMAIN r = {"text", "synthetic", "types"}
             /\ r.text \in Seq(STRING)
             /\ r.text # <<>>
             /\ r.synthetic \in BOOLEAN
             /\ r.types \in Seq(STRING)

C2_Witness ==
  /\ Len(calls) = 1
  /\ DOMAIN heap[calls[1][1].v] = CrateKeys
  /\ Len(heap[calls[1][1].v]["actix_http"]) = 89

\* C3, as stated: within each crate's list no two records have the same
\* text.  Refuted by the actix_http list.
C3_Original_NoDuplicateText ==
  \A id \in HandedOff :
    \A k \in DOMAIN heap[id] :
      \A i, j \in DOMAIN heap[id][k] :
        i # j => heap[id][k][i].text # heap[id][k][j].text

\* C3, amended: within each crate's list other than actix_http's no two
\* records have the same text; in the actix_http list the three signatures
\* "impl Freeze for Protocol", "impl Freeze for Codec" and
\* "impl Freeze for Payload" occur twice each and every other text once.
C3_NoDuplicateTextButHomonyms ==
  \A id \in HandedOff :
    \A k \in DOMAIN heap[id] :
      \A i \in DOMAIN heap[id][k] :
        Occurrences(heap[id][k], heap[id][k][i].text) =
          IF k = "actix_http" /\ heap[id][k][i].text \in Homonyms THEN 2 ELSE 1

C3_Witness ==
  /\ Stored = {1}
  /\ DOMAIN heap[1] = CrateKeys
  /\ \A t \in Homonyms : Occurrences(heap[1]["actix_http"], t) = 2
  /\ Len(heap[1]["actix_multipart"]) = 3

\* C4, as stated: no record of the mapping states that its type does not
\* implement Freeze.  Refuted by the "impl !Freeze for ..." records.
C4_Original_NoNegativeRecord ==
  \A id \in HandedOff :
    \A k \in DOMAIN heap[id] :
      \A i \in DOMAIN heap[id][k] : ~Negative(heap[id][k][i])

\* C4, amended: every record states the Freeze status of one type, either
\* "impl Freeze for" (it implements the trait) or "impl !Freeze for" (it
\* does not); the records of actix_files, actix_http_test and
\* actix_web_actors are all positive, while 17 records of actix_http, 2 of
\* actix_multipart, 5 of actix_web and 6 of awc are negative.
C4_EveryRecordStatesFreezeStatus ==
  \A id \in HandedOff :
    \A k \in DOMAIN heap[id] :
      /\ \A i \in DOMAIN heap[id][k] : Cardinality(TraitWords(heap[id][k][i])) = 1
      /\ Negatives(heap[id][k]) =
           CASE k = "actix_http"      -> 17
             [] k = "actix_multipart" -> 2
             [] k = "actix_web"       -> 5
             [] k = "awc"             -> 6
             [] OTHER                 -> 0

C4_Witness ==
  /\ Passed = {1}
  /\ DOMAIN heap[1] = CrateKeys
  /\ heap[1]["actix_multipart"][1].text = <<"impl", "!Freeze", "for", "Field">>
  /\ heap[1]["actix_files"][2].text = <<"impl", "Freeze", "for", "Files">>

\* C5: no step of the script changes a property of window other than
\* pending_implementors: register_implementors, the global of the name
\* `implementors` and every other property keep their values.
C5_OnlyPendingWritten ==
  [][\A p \in Props \ {"pending_implementors"} : window'[p] = window[p]]_vars

C5_Witness ==
  /\ result = "returned"
  /\ window["pending_implementors"] = Obj(1)
  /\ window["implementors"] = Obj(0)
  /\ window["register_implementors"] = Null

\* C6: once a mapping has been handed off, by the call or by the write to
\* window.pending_implementors, no later step changes it.
C6_HandedOffNeverChanges ==
  [][\A id \in HandedOff : heap'[id] = heap[id]]_vars

C6_Witness ==
  /\ evals = 2
  /\ pc = "L6"
  /\ HandedOff = {1}
  /\ DOMAIN heap[1] = CrateKeys
  /\ DOMAIN heap[2] # CrateKeys

\* C7: no evaluation ends in an error, whatever window.register_implementors
\* held.  Refuted by a truthy value that is no function.
C7_NoError == result # "TypeError"

\* C8: every finished evaluation made exactly one hand-off: with a truthy
\* window.register_implementors the call and no write to
\* window.pending_implementors, otherwise the write and no call.  Refuted
\* by a truthy value that is no function: neither hand-off happens.
C8_ExactlyOneHandOff ==
  Finished > 0 =>
    IF ToBoolean(window["register_implementors"])
      THEN /\ Len(calls) = Finished
           /\ \A i \in DOMAIN calls : calls[i] = <<Obj(i)>>
           /\ Stored = {}
      ELSE /\ calls = <<>>
           /\ window["pending_implementors"] = Obj(Finished)

\* C9: a mapping the viewer holds has all seven crate keys.
C9_CompleteAtHandOff ==
  \A id \in HandedOff : DOMAIN heap[id] = CrateKeys

C9_Witness ==
  /\ Stored = {2}
  /\ DOMAIN heap[2] = CrateKeys
  /\ Cardinality(DOMAIN heap[2]) = 7

\* C10: every record has synthetic true and an empty types list, the
\* records whose text names generic type parameters included.
C10_SyntheticAndNoTypes ==
  \A id \in 1..Len(heap) :
    \A k \in DOMAIN heap[id] :
      \A i \in DOMAIN heap[id][k] :
        /\ heap[id][k][i].synthetic = TRUE
        /\ heap[id][k][i].types = <<>>

C10_Witness ==
  /\ HandedOff = {1}
  /\ DOMAIN heap[1] = CrateKeys
  /\ heap[1]["actix_web_actors"][1].text[1] = "impl&lt;A&gt;"
  /\ heap[1]["actix_web_actors"][1].types = <<>>
  /\ heap[1]["actix_web_actors"][1].synthetic

============================================================================
